---- MODULE Spec2Model ----
(***************************************************************************)
(* hat-backup: the hash-store backend (src/src/key/hash_store_backend.rs)  *)
(* together with the two services it binds, the hash index and the blob    *)
(* store.  The backend's code is translated from the source; the hash      *)
(* index and the blob store are not part of the source tree at hand and    *)
(* are modelled from their specification (spec.md 4.1, 4.2).               *)
(*                                                                         *)
(* Client threads call insert_chunk, fetch_chunk, fetch_persistent_ref and *)
(* flush.  Every call is split at the points where the code takes or       *)
(* releases a mutex, so that calls of different threads interleave there.  *)
(* The payload of a hash entry is carried through unchanged by the code    *)
(* and is left out of the state.                                           *)
(*                                                                         *)
(* Two more components of the program have a specification of their own    *)
(* here: the parallel directory walker PathHandler::recurse                *)
(* (src/src/util/listdir.rs; WalkSpec, WalkFairSpec) and the key index     *)
(* (src/src/key/index.rs; KeySpec).  CrashSpec is the hash-store backend   *)
(* in a process that may crash and be restarted.  Each specification       *)
(* leaves the variables of the other components at their initial values.   *)
(***************************************************************************)
EXTENDS Integers, Sequences, FiniteSets, TLC

\* ------------------------------------------------------------- bounds
\* Target size of a blob, in bytes (4 MiB in the program, scaled down).
TargetSize == 2
\* How many times the backend's put may fail.
MaxPutFail == 1
\* How many bytes of persisted blobs may be altered from outside.
MaxCorrupt == 1
\* How many times the process may crash and be restarted.
MaxCrash == 1
\* recurse: the size of the worker pool and the capacity of the channel
\* (let threads = 10 in the program, scaled down).
threads == 2
\* How many read_dir calls or directory entries may fail during a traversal.
MaxWalkErr == 1
\* How many rows the key index may hold.
MaxKeys == 2

\* ------------------------------------------------------------- data
Threads == {"t1", "t2"}

\* The chunks the clients insert, each with the level of the hash tree it is
\* inserted at (0 is a leaf): byte strings of different lengths.
Inputs == {[chunk |-> <<1>>, level |-> 0],
           [chunk |-> <<2, 1>>, level |-> 1]}

Chunks == {i.chunk : i \in Inputs}

\* Hash::new: a collision-resistant hash of the bytes (a polynomial hash,
\* injective on the byte strings of the model).
RECURSIVE HashNew(_)
HashNew(data) ==
    IF data = <<>> THEN 7 ELSE (HashNew(Tail(data)) * 3 + Head(data)) % 251

Hashes == {HashNew(c) : c \in Chunks}

\* blob::ChunkRef {blob_name, offset, length, kind}; NoRef stands for None.
NoRef == [blob |-> 0, offset |-> 0, length |-> 0, kind |-> "None"]

\* hash::Entry as the index keeps it.
AbsentEntry == [state |-> "Absent", ref |-> NoRef, level |-> 0]

\* Locals of a thread outside a call, and the result of a call.
NoLoc == [h |-> 0, chunk |-> <<>>, level |-> 0, ref |-> NoRef]
NoRes == [op |-> "none", h |-> 0, tag |-> "none", ref |-> NoRef, data |-> <<>>]

VARIABLES
    hash_index,   \* hash -> entry of the hash index
    blob_name,    \* name of the open blob of the blob store
    buffer,       \* bytes of the open blob
    pending,      \* records of the open blob: <<ref, callback's hash>>
    firing,       \* callbacks of the blob being flushed, not yet invoked
    lock,         \* thread inside the blob store's flush, or "none"
    blobs,        \* the backend: name -> bytes of the persisted blobs
    pc,           \* thread -> position inside its call
    loc,          \* thread -> locals of its call
    res,          \* the result a call returned last
    reserved,     \* history: hash -> number of ReserveOk results
    storeSeq,     \* history: blob_store.store calls, in order
    written,      \* history: records of the blobs put successfully
    fired,        \* history: callbacks invoked, in order
    returned,     \* history: hash -> refs returned by insert_chunk
    nfail,        \* number of failed puts
    ncorrupt      \* number of bytes altered from outside

\* The hash-store backend with the hash index and the blob store.
hsVars == <<hash_index, blob_name, buffer, pending, firing, lock, blobs, pc, loc,
            res, reserved, storeSeq, written, fired, returned, nfail, ncorrupt>>

VARIABLES
    ncrash        \* number of crashes followed by a restart

crashVars == <<ncrash>>

\* PathHandler::recurse, the parallel directory walker.
VARIABLES
    chan,            \* the messages in the channel (push_ch -> work_ch), oldest first
    active_workers,  \* the master's counter
    mpc,             \* the master: "loop" inside its loop, "done" after the break
    jobs,            \* closures handed to the pool, not yet started
    running,         \* closures that a pool thread is running
    handled,         \* history: path -> payloads handle_path was called with
    descended,       \* history: paths for which handle_path returned a payload
    failed,          \* history: directories whose read_dir failed
    skipped,         \* history: entries that could not be read
    ndone,           \* history: directory -> Work::Done messages its closure sent
    nerr             \* number of failures so far

walkVars == <<chan, active_workers, mpc, jobs, running, handled, descended,
              failed, skipped, ndone, nerr>>

\* InternalKeyIndex, the table of keys.
VARIABLES
    keys,         \* the rows of the table, by id, as the open transaction sees them
    kdirty,       \* the open transaction holds statements not yet committed
    klast         \* the call made last, with its arguments

keyVars == <<keys, kdirty, klast>>

\* What the calls of the hash-store backend leave alone.
extVars == <<crashVars, walkVars, keyVars>>

vars == <<hsVars, extVars>>

hist == <<reserved, storeSeq, written, fired, returned>>

Range(s) == {s[i] : i \in DOMAIN s}

\* ------------------------------------------------------------- hash index
\* reserve: HashKnown when the hash has any entry, Reserved or Committed,
\* and ReserveOk otherwise.
index_reserve_result(idx, h) ==
    IF idx[h].state = "Absent" THEN "ReserveOk" ELSE "HashKnown"

\* reserve: on ReserveOk a Reserved row is inserted, with no ref yet.
index_reserve(idx, h, level) ==
    IF idx[h].state = "Absent"
    THEN [idx EXCEPT ![h] = [state |-> "Reserved", ref |-> NoRef, level |-> level]]
    ELSE idx

\* update_reserved: records the ref against a Reserved entry, which stays
\* Reserved; an entry that is not Reserved is left as it is.
index_update_reserved(idx, h, level, r) ==
    IF idx[h].state = "Reserved"
    THEN [idx EXCEPT ![h] = [state |-> "Reserved", ref |-> r, level |-> level]]
    ELSE idx

\* commit: the entry becomes Committed with the ref; a second commit with the
\* same ref changes nothing, one with another ref is a contract violation.
index_commit(idx, h, r) ==
    IF idx[h].state = "Committed"
    THEN IF idx[h].ref = r THEN idx ELSE [idx EXCEPT ![h].state = "Fatal"]
    ELSE [idx EXCEPT ![h].state = "Committed", ![h].ref = r]

\* fetch_persistent_ref: Some iff Committed, None when there is no entry,
\* Retry when the entry is Reserved.
index_fetch_persistent_ref(idx, h) ==
    CASE idx[h].state = "Committed" -> [tag |-> "Some", ref |-> idx[h].ref]
      [] idx[h].state = "Reserved"  -> [tag |-> "Retry", ref |-> NoRef]
      [] OTHER                      -> [tag |-> "None", ref |-> NoRef]

\* ------------------------------------------------------------- blob store
\* The ref store hands out at once: where the chunk will lie in the open blob.
store_ref(name, buf, chunk, kind) ==
    [blob |-> name, offset |-> Len(buf), length |-> Len(chunk), kind |-> kind]

\* Mutant: the ref of a callback is synthesized with the name of the next blob.
final_ref_next_blob(name, rec) ==
    [blob |-> name + 1, offset |-> rec.offset, length |-> rec.length, kind |-> rec.kind]

\* The ref synthesized for a pending record when its blob has been put.
final_ref(name, rec) ==
    [blob |-> name, offset |-> rec.offset, length |-> rec.length, kind |-> rec.kind]

\* The bytes [offset, offset + length) of a blob.
extract(bytes, r) ==
    IF r.offset + r.length <= Len(bytes)
    THEN [some |-> TRUE, data |-> SubSeq(bytes, r.offset + 1, r.offset + r.length)]
    ELSE [some |-> FALSE, data |-> <<>>]

\* Mutant: only persisted blobs are read, the open blob in memory is not.
retrieve_sealed_only(r) ==
    IF r.blob \in DOMAIN blobs THEN extract(blobs[r.blob], r)
    ELSE [some |-> FALSE, data |-> <<>>]

\* retrieve: from the open blob in memory or from a persisted blob; None when
\* the blob is missing.
retrieve(r) ==
    IF r.blob \in DOMAIN blobs THEN extract(blobs[r.blob], r)
    ELSE IF r.blob = blob_name THEN extract(buffer, r)
    ELSE [some |-> FALSE, data |-> <<>>]

\* ------------------------------------------------------------- backend
\* insert_chunk: blob::Kind from the level.
kind_of(level) == IF level = 0 THEN "TreeLeaf" ELSE "TreeBranch"

\* Mutant: HashKnown is not told from ReserveOk, the chunk is stored again.
reserve_branch_always_store(result) == "store"

\* insert_chunk: the arm taken on the result of reserve.
reserve_branch(result) == IF result = "HashKnown" THEN "known" ELSE "store"

\* Mutant: the callback records the ref but does not commit it.
callback_update_reserved(idx, local_hash, chunk_ref) ==
    index_update_reserved(idx, local_hash, idx[local_hash].level, chunk_ref)

\* insert_chunk: the commit callback handed to the blob store.
callback(idx, local_hash, chunk_ref) == index_commit(idx, local_hash, chunk_ref)

\* Mutant: the bytes are handed out without comparing their hash.
verify_unchecked(h, data_opt) ==
    IF data_opt.some
    THEN [tag |-> "Some", data |-> data_opt.data]
    ELSE [tag |-> "None", data |-> <<>>]

\* fetch_chunk: the bytes are handed out only when their hash is the one asked for.
verify(h, data_opt) ==
    IF data_opt.some /\ HashNew(data_opt.data) = h
    THEN [tag |-> "Some", data |-> data_opt.data]
    ELSE [tag |-> "None", data |-> <<>>]

\* fetch_chunk_from_hash: try! hands the index's Retry to the caller.
fetch_chunk_from_hash(idx, h) ==
    LET got == index_fetch_persistent_ref(idx, h) IN
    CASE got.tag = "Retry" -> [tag |-> "RetryErr", ref |-> NoRef]
      [] got.tag = "None"  -> [tag |-> "None", ref |-> NoRef]
      [] OTHER             -> [tag |-> "Some", ref |-> got.ref]

Result(op, h, tag, ref, data) ==
    [op |-> op, h |-> h, tag |-> tag, ref |-> ref, data |-> data]

Return(t, r) ==
    /\ pc' = [pc EXCEPT ![t] = "idle"]
    /\ loc' = [loc EXCEPT ![t] = NoLoc]
    /\ res' = r

HsInit ==
    /\ hash_index = [h \in Hashes |-> AbsentEntry]
    /\ blob_name = 1
    /\ buffer = <<>>
    /\ pending = <<>>
    /\ firing = <<>>
    /\ lock = "none"
    /\ blobs = <<>>
    /\ pc = [t \in Threads |-> "idle"]
    /\ loc = [t \in Threads |-> NoLoc]
    /\ res = NoRes
    /\ reserved = [h \in Hashes |-> 0]
    /\ storeSeq = <<>>
    /\ written = <<>>
    /\ fired = <<>>
    /\ returned = [h \in Hashes |-> {}]
    /\ nfail = 0
    /\ ncorrupt = 0

\* A process that has not crashed.
CrashInit == ncrash = 0

\* ------------------------------------------------------------- walker data
\* The tree walked: read_dir of a directory, as the sequence of its entries.
\* The root has more sub-directories than the channel has room for.
Root == "/"

read_dir(dir) ==
    CASE dir = "/"   -> <<"/a", "/b", "/c", "/d">>
      [] dir = "/a"  -> <<"/a/x">>
      [] dir = "/b"  -> <<"/b/y">>
      [] OTHER       -> <<>>

Paths == {"/", "/a", "/b", "/c", "/d", "/a/x", "/b/y"}

\* The directory an entry is listed in.
Parent(path) == CHOOSE dir \in Paths : \E i \in DOMAIN read_dir(dir) : read_dir(dir)[i] = path

\* The payload of the root (None in the tests) and the payload handle_path
\* returns for a path it wants walked: the path itself, as StubPathHandler does.
RootPayload == "none"
PayloadOf(path) == path

\* enum Work { Done, More(PathBuf, P) }
WorkDone == [tag |-> "Done", root |-> "", payload |-> ""]
WorkMore(root, payload) == [tag |-> "More", root |-> root, payload |-> payload]

\* No traversal is under way.
WalkIdle ==
    /\ chan = <<>>
    /\ active_workers = 0
    /\ mpc = "done"
    /\ jobs = <<>>
    /\ running = {}
    /\ handled = [p \in Paths |-> <<>>]
    /\ descended = {}
    /\ failed = {}
    /\ skipped = {}
    /\ ndone = [p \in Paths |-> 0]
    /\ nerr = 0

\* recurse up to its loop: the root is sent, no worker is counted.
WalkStart ==
    /\ chan = <<WorkMore(Root, RootPayload)>>
    /\ active_workers = 0
    /\ mpc = "loop"
    /\ jobs = <<>>
    /\ running = {}
    /\ handled = [p \in Paths |-> <<>>]
    /\ descended = {}
    /\ failed = {}
    /\ skipped = {}
    /\ ndone = [p \in Paths |-> 0]
    /\ nerr = 0

\* ------------------------------------------------------------- key index data
\* Option<T>: None, and Some(v).
NoneInt == [some |-> FALSE, v |-> 0]
NoneBytes == [some |-> FALSE, v |-> <<>>]
Some(v) == [some |-> TRUE, v |-> v]

\* The three values of an SQL condition.
SqlTrue == "true"
SqlFalse == "false"
SqlNull == "null"

sql_bool(b) == IF b THEN SqlTrue ELSE SqlFalse

\* column = value and column <= value: NULL when either side is NULL.
sql_eq(a, b) == IF a.some /\ b.some THEN sql_bool(a.v = b.v) ELSE SqlNull
sql_le(a, b) == IF a.some /\ b.some THEN sql_bool(a.v <= b.v) ELSE SqlNull

sql_or(x, y) ==
    IF x = SqlTrue \/ y = SqlTrue THEN SqlTrue
    ELSE IF x = SqlNull \/ y = SqlNull THEN SqlNull
    ELSE SqlFalse

\* Mutant: the update is not filtered by the row's modified column.
update_filter_none(row, last_modified) == SqlTrue

\* update_data_hash: the filter of the UPDATE statement when last_modified is
\* given, modified = NULL OR modified <= last_modified.
update_filter(row, last_modified) ==
    sql_or(sql_eq(row.modified, NoneInt), sql_le(row.modified, last_modified))

\* hash_opt.map(|h| h.bytes) and persistent_ref_opt.map(|p| p.as_bytes()): the
\* ref is serialised field by field.
hash_bytes(hash_opt) == IF hash_opt.some THEN Some(<<hash_opt.v>>) ELSE NoneBytes
as_bytes(r) == <<r.blob, r.offset, r.length, IF r.kind = "TreeLeaf" THEN 1 ELSE 2>>
persistent_ref_bytes(ref_opt) == IF ref_opt.some THEN Some(as_bytes(ref_opt.v)) ELSE NoneBytes

\* The arguments of the model's calls: names, timestamps, hashes and refs.
Names == {"f"}
Times == {NoneInt, Some(1), Some(2)}
NoneHash == [some |-> FALSE, v |-> 0]
NoneRef == [some |-> FALSE, v |-> NoRef]
HashArgs == {NoneHash} \cup {Some(h) : h \in Hashes}
KeyRefArgs == {NoneRef, Some([blob |-> 1, offset |-> 0, length |-> 1, kind |-> "TreeLeaf"])}

NoCall == [op |-> "none", id |-> 0, last_modified |-> NoneInt, hash |-> NoneHash,
           ref |-> NoneRef]

\* An empty table inside a fresh transaction.
KeyIdle ==
    /\ keys = <<>>
    /\ kdirty = FALSE
    /\ klast = NoCall

Init ==
    /\ HsInit
    /\ CrashInit
    /\ WalkIdle
    /\ KeyIdle

\* insert_chunk, up to the match on reserve's result.
InsertReserve(t, chunk, level) ==
    LET h == HashNew(chunk)
        result == index_reserve_result(hash_index, h) IN
    /\ pc[t] = "idle"
    /\ hash_index' = index_reserve(hash_index, h, level)
    /\ reserved' = IF result = "ReserveOk"
                   THEN [reserved EXCEPT ![h] = @ + 1] ELSE reserved
    /\ pc' = [pc EXCEPT ![t] = reserve_branch(result)]
    /\ loc' = [loc EXCEPT ![t] = [h |-> h, chunk |-> chunk, level |-> level, ref |-> NoRef]]
    /\ UNCHANGED res
    /\ UNCHANGED <<blob_name, buffer, pending, firing, lock, blobs, storeSeq,
                   written, fired, returned, nfail, ncorrupt>>

\* Mutant: on HashKnown the ref of the existing entry is returned at once.
InsertKnown_NoWait(t) ==
    LET h == loc[t].h IN
    /\ pc[t] = "known"
    /\ Return(t, Result("insert_chunk", h, "Known", hash_index[h].ref, <<>>))
    /\ returned' = [returned EXCEPT ![h] = @ \cup {hash_index[h].ref}]
    /\ UNCHANGED <<hash_index, blob_name, buffer, pending, firing, lock, blobs,
                   reserved, storeSeq, written, fired, nfail, ncorrupt>>

\* Mutant: the loop of fetch_persistent_ref gives up on Retry and answers None.
InsertKnown_NoRetry(t) ==
    LET h == loc[t].h
        got == index_fetch_persistent_ref(hash_index, h) IN
    /\ pc[t] = "known"
    /\ IF got.tag = "Some"
       THEN /\ Return(t, Result("insert_chunk", h, "Known", got.ref, <<>>))
            /\ returned' = [returned EXCEPT ![h] = @ \cup {got.ref}]
       ELSE /\ Return(t, Result("insert_chunk", h, "Panic", NoRef, <<>>))
            /\ UNCHANGED returned
    /\ UNCHANGED <<hash_index, blob_name, buffer, pending, firing, lock, blobs,
                   reserved, storeSeq, written, fired, nfail, ncorrupt>>

\* insert_chunk, HashKnown: one turn of the fetch_persistent_ref loop.
InsertKnown(t) ==
    LET h == loc[t].h
        got == index_fetch_persistent_ref(hash_index, h) IN
    /\ pc[t] = "known"
    /\ CASE got.tag = "Retry" -> UNCHANGED <<pc, loc, res, returned>>
         [] got.tag = "Some" ->
              /\ Return(t, Result("insert_chunk", h, "Known", got.ref, <<>>))
              /\ returned' = [returned EXCEPT ![h] = @ \cup {got.ref}]
         [] OTHER ->
              /\ Return(t, Result("insert_chunk", h, "Panic", NoRef, <<>>))
              /\ UNCHANGED returned
    /\ UNCHANGED <<hash_index, blob_name, buffer, pending, firing, lock, blobs,
                   reserved, storeSeq, written, fired, nfail, ncorrupt>>

\* insert_chunk, ReserveOk: blob_store.store appends the chunk to the open
\* blob and records its callback; a full blob is flushed inside the call.
InsertStore(t) ==
    LET h == loc[t].h
        chunk == loc[t].chunk
        chunk_ref == store_ref(blob_name, buffer, chunk, kind_of(loc[t].level))
        full == Len(buffer) + Len(chunk) >= TargetSize IN
    /\ pc[t] = "store"
    /\ lock = "none"
    /\ buffer' = buffer \o chunk
    /\ pending' = Append(pending, [offset |-> chunk_ref.offset,
                                   length |-> chunk_ref.length,
                                   kind |-> chunk_ref.kind, cb |-> h])
    /\ storeSeq' = Append(storeSeq, [ref |-> chunk_ref, cb |-> h])
    /\ loc' = [loc EXCEPT ![t].ref = chunk_ref]
    /\ lock' = IF full THEN t ELSE "none"
    /\ pc' = [pc EXCEPT ![t] = IF full THEN "store_put" ELSE "update"]
    /\ UNCHANGED <<hash_index, blob_name, firing, blobs, res, reserved, written,
                   fired, returned, nfail, ncorrupt>>

\* Mutant: the ref is committed when store returns, not by the callback.
InsertUpdate_Commit(t) ==
    LET h == loc[t].h
        chunk_ref == loc[t].ref IN
    /\ pc[t] = "update"
    /\ hash_index' = index_commit(hash_index, h, chunk_ref)
    /\ returned' = [returned EXCEPT ![h] = @ \cup {chunk_ref}]
    /\ Return(t, Result("insert_chunk", h, "Stored", chunk_ref, <<>>))
    /\ UNCHANGED <<blob_name, buffer, pending, firing, lock, blobs, reserved,
                   storeSeq, written, fired, nfail, ncorrupt>>

\* Mutant: insert_chunk invokes the callback itself when store returns.
InsertUpdate_EagerCallback(t) ==
    LET h == loc[t].h
        chunk_ref == loc[t].ref IN
    /\ pc[t] = "update"
    /\ hash_index' = index_update_reserved(index_commit(hash_index, h, chunk_ref),
                                           h, loc[t].level, chunk_ref)
    /\ fired' = Append(fired, [ref |-> chunk_ref, cb |-> h])
    /\ returned' = [returned EXCEPT ![h] = @ \cup {chunk_ref}]
    /\ Return(t, Result("insert_chunk", h, "Stored", chunk_ref, <<>>))
    /\ UNCHANGED <<blob_name, buffer, pending, firing, lock, blobs, reserved,
                   storeSeq, written, nfail, ncorrupt>>

\* insert_chunk, ReserveOk: update_reserved with the ref, and return it.
InsertUpdate(t) ==
    LET h == loc[t].h
        chunk_ref == loc[t].ref IN
    /\ pc[t] = "update"
    /\ hash_index' = index_update_reserved(hash_index, h, loc[t].level, chunk_ref)
    /\ returned' = [returned EXCEPT ![h] = @ \cup {chunk_ref}]
    /\ Return(t, Result("insert_chunk", h, "Stored", chunk_ref, <<>>))
    /\ UNCHANGED <<blob_name, buffer, pending, firing, lock, blobs, reserved,
                   storeSeq, written, fired, nfail, ncorrupt>>

\* flush called by a client: nothing to do for an empty blob.
Flush(t) ==
    /\ pc[t] = "idle"
    /\ lock = "none"
    /\ IF pending = <<>>
       THEN /\ Return(t, Result("flush", 0, "Ok", NoRef, <<>>))
            /\ UNCHANGED lock
       ELSE /\ lock' = t
            /\ pc' = [pc EXCEPT ![t] = "flush_put"]
            /\ UNCHANGED res
            /\ UNCHANGED loc
    /\ UNCHANGED <<hash_index, blob_name, buffer, pending, firing, blobs, hist,
                   nfail, ncorrupt>>

\* flush: the backend's put succeeds; the blob is sealed, a new one is opened
\* and the callbacks of the sealed one are due.
FlushPutOk(t) ==
    /\ pc[t] \in {"store_put", "flush_put"}
    /\ lock = t
    /\ blobs' = blobs @@ (blob_name :> buffer)
    /\ firing' = [i \in DOMAIN pending |->
                    [ref |-> final_ref(blob_name, pending[i]), cb |-> pending[i].cb]]
    /\ written' = written \o firing'
    /\ blob_name' = blob_name + 1
    /\ buffer' = <<>>
    /\ pending' = <<>>
    /\ pc' = [pc EXCEPT ![t] = IF pc[t] = "store_put" THEN "store_cb" ELSE "flush_cb"]
    /\ UNCHANGED <<hash_index, lock, loc, res, reserved, storeSeq, fired, returned,
                   nfail, ncorrupt>>

\* Mutant: a failed put drops the open blob and its pending records.
FlushPutFail_Drop(t) ==
    /\ pc[t] \in {"store_put", "flush_put"}
    /\ lock = t
    /\ nfail < MaxPutFail
    /\ nfail' = nfail + 1
    /\ lock' = "none"
    /\ buffer' = <<>>
    /\ pending' = <<>>
    /\ Return(t, Result(IF pc[t] = "store_put" THEN "insert_chunk" ELSE "flush",
                        loc[t].h, "StorageErr", NoRef, <<>>))
    /\ UNCHANGED <<hash_index, blob_name, firing, blobs, hist, ncorrupt>>

\* flush: the backend's put fails; the error goes to the caller and the open
\* blob stays as it was.
FlushPutFail(t) ==
    /\ pc[t] \in {"store_put", "flush_put"}
    /\ lock = t
    /\ nfail < MaxPutFail
    /\ nfail' = nfail + 1
    /\ lock' = "none"
    /\ Return(t, Result(IF pc[t] = "store_put" THEN "insert_chunk" ELSE "flush",
                        loc[t].h, "StorageErr", NoRef, <<>>))
    /\ UNCHANGED <<hash_index, blob_name, buffer, pending, firing, blobs, hist,
                   ncorrupt>>

\* Mutant: the callbacks of a sealed blob are invoked last record first.
FlushCallback_Last(t) ==
    /\ pc[t] \in {"store_cb", "flush_cb"}
    /\ lock = t
    /\ firing # <<>>
    /\ hash_index' = callback(hash_index, firing[Len(firing)].cb, firing[Len(firing)].ref)
    /\ fired' = Append(fired, firing[Len(firing)])
    /\ firing' = SubSeq(firing, 1, Len(firing) - 1)
    /\ UNCHANGED <<blob_name, buffer, pending, lock, blobs, pc, loc, res,
                   reserved, storeSeq, written, returned, nfail, ncorrupt>>

\* flush: the next callback of the sealed blob is invoked.
FlushCallback(t) ==
    /\ pc[t] \in {"store_cb", "flush_cb"}
    /\ lock = t
    /\ firing # <<>>
    /\ hash_index' = callback(hash_index, Head(firing).cb, Head(firing).ref)
    /\ fired' = Append(fired, Head(firing))
    /\ firing' = Tail(firing)
    /\ UNCHANGED <<blob_name, buffer, pending, lock, blobs, pc, loc, res,
                   reserved, storeSeq, written, returned, nfail, ncorrupt>>

\* flush: all callbacks are done; store goes on, flush returns.
FlushEnd(t) ==
    /\ pc[t] \in {"store_cb", "flush_cb"}
    /\ lock = t
    /\ firing = <<>>
    /\ lock' = "none"
    /\ IF pc[t] = "store_cb"
       THEN /\ pc' = [pc EXCEPT ![t] = "update"]
            /\ UNCHANGED <<loc, res>>
       ELSE Return(t, Result("flush", 0, "Ok", NoRef, <<>>))
    /\ UNCHANGED <<hash_index, blob_name, buffer, pending, firing, blobs, hist,
                   nfail, ncorrupt>>

\* fetch_chunk with a persistent_ref.
FetchChunkRef(t, h, r) ==
    LET out == verify(h, retrieve(r)) IN
    /\ pc[t] = "idle"
    /\ lock = "none"
    /\ Return(t, Result("fetch_chunk", h, out.tag, r, out.data))
    /\ UNCHANGED <<hash_index, blob_name, buffer, pending, firing, lock, blobs,
                   hist, nfail, ncorrupt>>

\* fetch_chunk without a persistent_ref: the ref comes from the hash index.
FetchChunkHash(t, h) ==
    LET got == fetch_chunk_from_hash(hash_index, h) IN
    /\ pc[t] = "idle"
    /\ IF got.tag = "Some"
       THEN /\ pc' = [pc EXCEPT ![t] = "fetch"]
            /\ loc' = [loc EXCEPT ![t] = [NoLoc EXCEPT !.h = h, !.ref = got.ref]]
            /\ UNCHANGED res
       ELSE Return(t, Result("fetch_chunk", h, got.tag, NoRef, <<>>))
    /\ UNCHANGED <<hash_index, blob_name, buffer, pending, firing, lock, blobs,
                   hist, nfail, ncorrupt>>

\* fetch_chunk without a persistent_ref: retrieve and verify.
FetchRetrieve(t) ==
    LET out == verify(loc[t].h, retrieve(loc[t].ref)) IN
    /\ pc[t] = "fetch"
    /\ lock = "none"
    /\ Return(t, Result("fetch_chunk", loc[t].h, out.tag, loc[t].ref, out.data))
    /\ UNCHANGED <<hash_index, blob_name, buffer, pending, firing, lock, blobs,
                   hist, nfail, ncorrupt>>

\* fetch_persistent_ref of the backend is called.
FetchPersistentRef(t, h) ==
    /\ pc[t] = "idle"
    /\ pc' = [pc EXCEPT ![t] = "fpr"]
    /\ loc' = [loc EXCEPT ![t] = [NoLoc EXCEPT !.h = h]]
    /\ UNCHANGED res
    /\ UNCHANGED <<hash_index, blob_name, buffer, pending, firing, lock, blobs,
                   hist, nfail, ncorrupt>>

\* fetch_persistent_ref of the backend: one turn of its loop.
FetchPersistentRefLoop(t) ==
    LET h == loc[t].h
        got == index_fetch_persistent_ref(hash_index, h) IN
    /\ pc[t] = "fpr"
    /\ IF got.tag = "Retry"
       THEN UNCHANGED <<pc, loc, res>>
       ELSE Return(t, Result("fetch_persistent_ref", h, got.tag, got.ref, <<>>))
    /\ UNCHANGED <<hash_index, blob_name, buffer, pending, firing, lock, blobs,
                   hist, nfail, ncorrupt>>

\* A byte of a persisted blob is altered from outside the program.
Corrupt ==
    /\ ncorrupt < MaxCorrupt
    /\ \E n \in DOMAIN blobs : \E i \in DOMAIN blobs[n] :
         blobs' = [blobs EXCEPT ![n][i] = 3 - @]
    /\ ncorrupt' = ncorrupt + 1
    /\ UNCHANGED <<hash_index, blob_name, buffer, pending, firing, lock, pc, loc,
                   res, hist, nfail>>

\* The refs a client may pass to fetch_chunk: the ones handed out so far and
\* one into a blob that does not exist.
MissingRef == [blob |-> blob_name + 1, offset |-> 0, length |-> 1, kind |-> "TreeLeaf"]
RefArgs == {storeSeq[i].ref : i \in DOMAIN storeSeq} \cup {MissingRef}

\* The steps of a call that is under way.
Step(t) ==
    \/ InsertKnown(t) /\ UNCHANGED extVars
    \/ InsertStore(t) /\ UNCHANGED extVars
    \/ InsertUpdate(t) /\ UNCHANGED extVars
    \/ FlushPutOk(t) /\ UNCHANGED extVars
    \/ FlushCallback(t) /\ UNCHANGED extVars
    \/ FlushEnd(t) /\ UNCHANGED extVars
    \/ FetchRetrieve(t) /\ UNCHANGED extVars
    \/ FetchPersistentRefLoop(t) /\ UNCHANGED extVars

\* A client starts a call.
Call(t) ==
    \/ \E i \in Inputs : InsertReserve(t, i.chunk, i.level) /\ UNCHANGED extVars
    \/ Flush(t) /\ UNCHANGED extVars
    \/ \E h \in Hashes, r \in RefArgs : FetchChunkRef(t, h, r) /\ UNCHANGED extVars
    \/ \E h \in Hashes : FetchChunkHash(t, h) /\ UNCHANGED extVars
    \/ \E h \in Hashes : FetchPersistentRef(t, h) /\ UNCHANGED extVars

Next ==
    \/ \E t \in Threads : Call(t)
    \/ \E t \in Threads : Step(t)
    \/ \E t \in Threads : FlushPutFail(t) /\ UNCHANGED extVars
    \/ Corrupt /\ UNCHANGED extVars

Spec == Init /\ [][Next]_vars

\* The program with a backend whose put never fails and whose blobs nobody
\* alters.  The scheduler runs every call that is under way; whether a
\* client starts another call is up to the client.
NextOk ==
    \/ \E t \in Threads : Call(t)
    \/ \E t \in Threads : Step(t)

FairSpecOk == Init /\ [][NextOk]_vars /\ \A t \in Threads : WF_vars(Step(t))

\* ------------------------------------------------------------- crash
\* Mutant: the restarted hash index still shows the rows that were Reserved.
index_restart_keep_reserved(idx) == idx

\* The hash index after a restart: the Committed rows, and no other.
index_restart(idx) ==
    [h \in DOMAIN idx |-> IF idx[h].state = "Committed" THEN idx[h] ELSE AbsentEntry]

\* The process crashes and is restarted: the calls under way, the open blob
\* and its callbacks are gone, the persisted blobs stay.
Crash ==
    /\ ncrash < MaxCrash
    /\ ncrash' = ncrash + 1
    /\ hash_index' = index_restart(hash_index)
    /\ buffer' = <<>>
    /\ pending' = <<>>
    /\ firing' = <<>>
    /\ lock' = "none"
    /\ pc' = [t \in Threads |-> "idle"]
    /\ loc' = [t \in Threads |-> NoLoc]
    /\ res' = Result("restart", 0, "Ok", NoRef, <<>>)
    /\ UNCHANGED <<blob_name, blobs, hist, nfail, ncorrupt>>
    /\ UNCHANGED <<walkVars, keyVars>>

\* insert_chunk and flush, the calls that write to the hash index and the blob
\* store, in a process that may crash at any of their steps.
CrashNext ==
    \/ \E t \in Threads : \E i \in Inputs :
           InsertReserve(t, i.chunk, i.level) /\ UNCHANGED extVars
    \/ \E t \in Threads : Flush(t) /\ UNCHANGED extVars
    \/ \E t \in Threads : InsertKnown(t) /\ UNCHANGED extVars
    \/ \E t \in Threads : InsertStore(t) /\ UNCHANGED extVars
    \/ \E t \in Threads : InsertUpdate(t) /\ UNCHANGED extVars
    \/ \E t \in Threads : FlushPutOk(t) /\ UNCHANGED extVars
    \/ \E t \in Threads : FlushCallback(t) /\ UNCHANGED extVars
    \/ \E t \in Threads : FlushEnd(t) /\ UNCHANGED extVars
    \/ Crash

CrashSpec == Init /\ [][CrashNext]_vars

\* ------------------------------------------------------------- walker
\* A closure handed to the pool: the directory, its payload, the entries
\* still to be read, and the path whose More message is being sent.
Task(root, payload, todo, sending) ==
    [root |-> root, payload |-> payload, todo |-> todo, sending |-> sending]

\* The master receives Work::Done.
MasterDone ==
    /\ mpc = "loop"
    /\ chan # <<>>
    /\ Head(chan).tag = "Done"
    /\ chan' = Tail(chan)
    /\ active_workers' = active_workers - 1
    /\ mpc' = IF active_workers - 1 = 0 THEN "done" ELSE "loop"
    /\ UNCHANGED <<jobs, running, handled, descended, failed, skipped, ndone, nerr>>

\* Mutant: the master hands the closure to the pool without counting it.
MasterMore_NoCount ==
    /\ mpc = "loop"
    /\ chan # <<>>
    /\ Head(chan).tag = "More"
    /\ chan' = Tail(chan)
    /\ jobs' = Append(jobs, Task(Head(chan).root, Head(chan).payload, <<>>, ""))
    /\ UNCHANGED <<active_workers, mpc, running, handled, descended, failed,
                   skipped, ndone, nerr>>

\* The master receives Work::More, counts a worker and hands a closure to the pool.
MasterMore ==
    /\ mpc = "loop"
    /\ chan # <<>>
    /\ Head(chan).tag = "More"
    /\ chan' = Tail(chan)
    /\ active_workers' = active_workers + 1
    /\ jobs' = Append(jobs, Task(Head(chan).root, Head(chan).payload, <<>>, ""))
    /\ UNCHANGED <<mpc, running, handled, descended, failed, skipped, ndone, nerr>>

\* A free pool thread starts the oldest closure: read_dir succeeds.
WorkerStart ==
    /\ jobs # <<>>
    /\ Cardinality(running) < threads
    /\ jobs' = Tail(jobs)
    /\ running' = running \cup {[Head(jobs) EXCEPT !.todo = read_dir(Head(jobs).root)]}
    /\ UNCHANGED <<chan, active_workers, mpc, handled, descended, failed, skipped,
                   ndone, nerr>>

\* Mutant: a closure whose read_dir failed ends without a message.
WorkerReadDirErr_NoDone ==
    /\ jobs # <<>>
    /\ Cardinality(running) < threads
    /\ nerr < MaxWalkErr
    /\ jobs' = Tail(jobs)
    /\ failed' = failed \cup {Head(jobs).root}
    /\ nerr' = nerr + 1
    /\ UNCHANGED <<chan, active_workers, mpc, running, handled, descended, skipped, ndone>>

\* A free pool thread starts the oldest closure: read_dir fails, no entry is read.
WorkerReadDirErr ==
    /\ jobs # <<>>
    /\ Cardinality(running) < threads
    /\ nerr < MaxWalkErr
    /\ jobs' = Tail(jobs)
    /\ running' = running \cup {Head(jobs)}
    /\ failed' = failed \cup {Head(jobs).root}
    /\ nerr' = nerr + 1
    /\ UNCHANGED <<chan, active_workers, mpc, handled, descended, skipped, ndone>>

\* The next entry is read and handle_path returns None for it.
WorkerHandleNone(task) ==
    /\ task \in running
    /\ task.sending = "" /\ task.todo # <<>>
    /\ handled' = [handled EXCEPT ![Head(task.todo)] = Append(@, task.payload)]
    /\ running' = (running \ {task}) \cup {[task EXCEPT !.todo = Tail(task.todo)]}
    /\ UNCHANGED <<chan, active_workers, mpc, jobs, descended, failed, skipped, ndone, nerr>>

\* The next entry is read and handle_path returns a payload for it.
WorkerHandleSome(task) ==
    /\ task \in running
    /\ task.sending = "" /\ task.todo # <<>>
    /\ handled' = [handled EXCEPT ![Head(task.todo)] = Append(@, task.payload)]
    /\ descended' = descended \cup {Head(task.todo)}
    /\ running' = (running \ {task}) \cup
                     {[task EXCEPT !.todo = Tail(task.todo), !.sending = Head(task.todo)]}
    /\ UNCHANGED <<chan, active_workers, mpc, jobs, failed, skipped, ndone, nerr>>

\* The next entry cannot be read: it is skipped.
WorkerEntryErr(task) ==
    /\ task \in running
    /\ task.sending = "" /\ task.todo # <<>>
    /\ nerr < MaxWalkErr
    /\ skipped' = skipped \cup {Head(task.todo)}
    /\ nerr' = nerr + 1
    /\ running' = (running \ {task}) \cup {[task EXCEPT !.todo = Tail(task.todo)]}
    /\ UNCHANGED <<chan, active_workers, mpc, jobs, handled, descended, failed, ndone>>

\* Mutant: the More message of a sub-directory is not sent.
WorkerSendMore_Drop(task) ==
    /\ task \in running
    /\ task.sending # ""
    /\ running' = (running \ {task}) \cup {[task EXCEPT !.sending = ""]}
    /\ UNCHANGED <<chan, active_workers, mpc, jobs, handled, descended, failed,
                   skipped, ndone, nerr>>

\* Mutant: the More message carries the closure's own payload, not the one
\* handle_path returned.
WorkerSendMore_OwnPayload(task) ==
    /\ task \in running
    /\ task.sending # ""
    /\ Len(chan) < threads
    /\ chan' = Append(chan, WorkMore(task.sending, task.payload))
    /\ running' = (running \ {task}) \cup {[task EXCEPT !.sending = ""]}
    /\ UNCHANGED <<active_workers, mpc, jobs, handled, descended, failed, skipped,
                   ndone, nerr>>

\* push_ch_.send(Work::More(path, dir)): waits while the channel is full.
WorkerSendMore(task) ==
    /\ task \in running
    /\ task.sending # ""
    /\ Len(chan) < threads
    /\ chan' = Append(chan, WorkMore(task.sending, PayloadOf(task.sending)))
    /\ running' = (running \ {task}) \cup {[task EXCEPT !.sending = ""]}
    /\ UNCHANGED <<active_workers, mpc, jobs, handled, descended, failed, skipped,
                   ndone, nerr>>

\* Mutant: the closure ends without sending Work::Done.
WorkerSendDone_Silent(task) ==
    /\ task \in running
    /\ task.sending = "" /\ task.todo = <<>>
    /\ running' = running \ {task}
    /\ UNCHANGED <<chan, active_workers, mpc, jobs, handled, descended, failed,
                   skipped, ndone, nerr>>

\* push_ch_.send(Work::Done), the closure's last statement: waits while the
\* channel is full; the pool thread is free afterwards.
WorkerSendDone(task) ==
    /\ task \in running
    /\ task.sending = "" /\ task.todo = <<>>
    /\ Len(chan) < threads
    /\ chan' = Append(chan, WorkDone)
    /\ ndone' = [ndone EXCEPT ![task.root] = @ + 1]
    /\ running' = running \ {task}
    /\ UNCHANGED <<active_workers, mpc, jobs, handled, descended, failed, skipped, nerr>>

\* The traversal leaves the rest of the program alone.
walkOthers == <<hsVars, crashVars, keyVars>>

\* The master thread: one turn of its loop.
WalkMaster ==
    \/ MasterDone /\ UNCHANGED walkOthers
    \/ MasterMore /\ UNCHANGED walkOthers

\* The pool threads.
WalkWorker ==
    \/ WorkerStart /\ UNCHANGED walkOthers
    \/ WorkerReadDirErr /\ UNCHANGED walkOthers
    \/ \E task \in running : WorkerHandleNone(task) /\ UNCHANGED walkOthers
    \/ \E task \in running : WorkerHandleSome(task) /\ UNCHANGED walkOthers
    \/ \E task \in running : WorkerEntryErr(task) /\ UNCHANGED walkOthers
    \/ \E task \in running : WorkerSendMore(task) /\ UNCHANGED walkOthers
    \/ \E task \in running : WorkerSendDone(task) /\ UNCHANGED walkOthers

WalkInit ==
    /\ HsInit
    /\ CrashInit
    /\ WalkStart
    /\ KeyIdle

WalkNext ==
    \/ WalkMaster
    \/ WalkWorker

WalkSpec == WalkInit /\ [][WalkNext]_vars

\* The scheduler runs the master and every pool thread that can take a step.
WalkFairSpec == WalkSpec /\ WF_vars(WalkMaster) /\ WF_vars(WalkWorker)

\* ------------------------------------------------------------- key index
\* maybe_flush: when the flush timer has fired the transaction is committed
\* and a new one begun; whether it has fired is up to the clock.
maybe_flush(dirty) == {dirty, FALSE}

\* flush, called by the owner of the index.
KeyFlush ==
    /\ kdirty' = FALSE
    /\ klast' = [NoCall EXCEPT !.op = "flush"]
    /\ UNCHANGED keys

\* insert of an entry without id: a new row, hash and persistent_ref NULL.
KeyInsertNew(name, mod) ==
    /\ Len(keys) < MaxKeys
    /\ keys' = Append(keys, [name |-> name, modified |-> mod,
                             hash |-> NoneBytes, persistent_ref |-> NoneBytes])
    /\ klast' = [NoCall EXCEPT !.op = "insert", !.id = Len(keys) + 1]
    /\ kdirty' = TRUE

\* insert of an entry with an id: the row's name and timestamps are replaced.
KeyInsertExisting(id, name, mod) ==
    /\ keys' = [j \in DOMAIN keys |->
                  IF j = id THEN [keys[j] EXCEPT !.name = name, !.modified = mod]
                  ELSE keys[j]]
    /\ klast' = [NoCall EXCEPT !.op = "insert", !.id = id]
    /\ kdirty' = TRUE

\* Mutant: update_data_hash without its assertion.
KeyUpdateDataHash_NoAssert(id, last_modified, hash_opt, ref_opt) ==
    /\ keys' = [j \in DOMAIN keys |->
                  IF j = id /\ (last_modified.some =>
                                   update_filter(keys[j], last_modified) = SqlTrue)
                  THEN [keys[j] EXCEPT !.hash = hash_bytes(hash_opt),
                                       !.persistent_ref = persistent_ref_bytes(ref_opt)]
                  ELSE keys[j]]
    /\ kdirty' \in maybe_flush(TRUE)
    /\ klast' = [op |-> "update_data_hash", id |-> id, last_modified |-> last_modified,
                 hash |-> hash_opt, ref |-> ref_opt]

\* update_data_hash: the assertion, then one of the two UPDATE statements,
\* then maybe_flush.
KeyUpdateDataHash(id, last_modified, hash_opt, ref_opt) ==
    /\ hash_opt.some = ref_opt.some
    /\ keys' = [j \in DOMAIN keys |->
                  IF j = id /\ (last_modified.some =>
                                   update_filter(keys[j], last_modified) = SqlTrue)
                  THEN [keys[j] EXCEPT !.hash = hash_bytes(hash_opt),
                                       !.persistent_ref = persistent_ref_bytes(ref_opt)]
                  ELSE keys[j]]
    /\ kdirty' \in maybe_flush(TRUE)
    /\ klast' = [op |-> "update_data_hash", id |-> id, last_modified |-> last_modified,
                 hash |-> hash_opt, ref |-> ref_opt]

\* update_data_hash with a hash but no ref, or a ref but no hash: the
\* assertion fails before any statement.
KeyUpdatePanic(id, last_modified, hash_opt, ref_opt) ==
    /\ hash_opt.some # ref_opt.some
    /\ klast' = [NoCall EXCEPT !.op = "panic", !.id = id]
    /\ UNCHANGED <<keys, kdirty>>

\* The key index leaves the rest of the program alone.
keyOthers == <<hsVars, crashVars, walkVars>>

KeyIds == 1 .. MaxKeys

KeyInit ==
    /\ HsInit
    /\ CrashInit
    /\ WalkIdle
    /\ KeyIdle

KeyNext ==
    \/ KeyFlush /\ UNCHANGED keyOthers
    \/ \E name \in Names, mod \in Times : KeyInsertNew(name, mod) /\ UNCHANGED keyOthers
    \/ \E id \in KeyIds, name \in Names, mod \in Times :
           KeyInsertExisting(id, name, mod) /\ UNCHANGED keyOthers
    \/ \E id \in KeyIds, lm \in Times, h \in HashArgs, r \in KeyRefArgs :
           KeyUpdateDataHash(id, lm, h, r) /\ UNCHANGED keyOthers
    \/ \E id \in KeyIds, lm \in Times, h \in HashArgs, r \in KeyRefArgs :
           KeyUpdatePanic(id, lm, h, r) /\ UNCHANGED keyOthers

KeySpec == KeyInit /\ [][KeyNext]_vars

\* ------------------------------------------------------------- properties
StoreCount(h) == Cardinality({i \in DOMAIN storeSeq : storeSeq[i].cb = h})
WrittenCount(h) == Cardinality({i \in DOMAIN written : written[i].cb = h})
FiredCount(h) == Cardinality({i \in DOMAIN fired : fired[i].cb = h})

\* The refs store handed out for the chunks of hash h.
StoredRefs(h) == {storeSeq[i].ref : i \in {j \in DOMAIN storeSeq : storeSeq[j].cb = h}}

\* No call is under way and the open blob is empty: the state after a final flush.
Quiescent ==
    /\ \A t \in Threads : pc[t] = "idle"
    /\ lock = "none"
    /\ pending = <<>>

\* The result was read out of the hash index: by fetch_persistent_ref, or by
\* insert_chunk on its HashKnown arm.
ObservedRef ==
    \/ res.op = "fetch_persistent_ref" /\ res.tag = "Some"
    \/ res.op = "insert_chunk" /\ res.tag = "Known"

\* C1: blob_store.store is called at most once per hash and only on the
\* ReserveOk arm; every chunk is written to the backend at most once and lies
\* there under its ref; after a final flush, with no put error, exactly one
\* chunk per inserted hash has been written.
C1_Dedup ==
    /\ \A h \in Hashes : StoreCount(h) <= 1 /\ StoreCount(h) <= reserved[h]
    /\ \A h \in Hashes : WrittenCount(h) <= 1
    /\ Len(buffer) = 0 <=> pending = <<>>
    /\ ncorrupt = 0 =>
         \A i \in DOMAIN written :
            /\ written[i].ref.blob \in DOMAIN blobs
            /\ LET got == extract(blobs[written[i].ref.blob], written[i].ref) IN
               got.some /\ HashNew(got.data) = written[i].cb
    /\ (Quiescent /\ nfail = 0) =>
         \A h \in Hashes :
            WrittenCount(h) = IF hash_index[h].state = "Absent" THEN 0 ELSE 1

\* C1 witness: after a final flush both chunks are written once, and the call
\* that returned last was deduplicated.
C1_Witness ==
    /\ Quiescent /\ nfail = 0
    /\ res.op = "insert_chunk" /\ res.tag = "Known"
    /\ \A h \in Hashes : WrittenCount(h) = 1

\* C2: per hash exactly one insert_chunk gets ReserveOk, and every
\* insert_chunk that returns, returns the ref store handed to that caller.
C2_OneReserveOneRef ==
    \A h \in Hashes :
        /\ reserved[h] <= 1
        /\ hash_index[h].state # "Absent" => reserved[h] = 1
        /\ (\E t \in Threads : pc[t] \in {"known", "store", "update"} /\ loc[t].h = h)
              => reserved[h] = 1
        /\ Cardinality({t \in Threads :
                 pc[t] \in {"store", "store_put", "store_cb", "update"} /\ loc[t].h = h}) <= 1
        /\ returned[h] \subseteq StoredRefs(h)
        /\ Cardinality(returned[h]) <= 1

\* C2 witness: a HashKnown caller has returned the ref while the ReserveOk
\* caller of the same hash is still inside insert_chunk.
C2_Witness ==
    /\ res.op = "insert_chunk" /\ res.tag = "Known"
    /\ \E t \in Threads : pc[t] = "update" /\ loc[t].h = res.h /\ loc[t].ref = res.ref

\* C3 (as claimed): an insert_chunk that observes HashKnown returns.
C3_KnownReturns ==
    \A t \in Threads : (pc[t] = "known") ~> (pc[t] # "known")

\* C4: a ref read out of the hash index names a blob the backend holds, and
\* its entry is Committed; the ref of a Committed entry names such a blob.
C4_ObservedPersisted ==
    /\ ObservedRef =>
         /\ res.ref.blob \in DOMAIN blobs
         /\ hash_index[res.h].state = "Committed"
         /\ hash_index[res.h].ref = res.ref
    /\ \A h \in Hashes :
         hash_index[h].state = "Committed" => hash_index[h].ref.blob \in DOMAIN blobs

\* C4 witness: fetch_persistent_ref returned Some while another entry is
\* Reserved with its ref recorded.
C4_Witness ==
    /\ res.op = "fetch_persistent_ref" /\ res.tag = "Some"
    /\ \E h \in Hashes : hash_index[h].state = "Reserved" /\ hash_index[h].ref # NoRef

\* C5: reserve, store, put, commit happen in this order for every chunk, and
\* a ref is read out of the hash index only after its commit.
C5_EventOrder ==
    /\ \A i \in DOMAIN storeSeq : reserved[storeSeq[i].cb] >= 1
    /\ \A i \in DOMAIN written :
         written[i] \in Range(storeSeq) /\ written[i].ref.blob \in DOMAIN blobs
    /\ \A i \in DOMAIN fired : fired[i] \in Range(written)
    /\ \A h \in Hashes :
         hash_index[h].state = "Committed" =>
            [ref |-> hash_index[h].ref, cb |-> h] \in Range(fired)
    /\ ObservedRef => [ref |-> res.ref, cb |-> res.h] \in Range(fired)

\* C5 witness: a chunk went through all four events and its ref was read out
\* of the hash index.
C5_Witness ==
    /\ ObservedRef
    /\ [ref |-> res.ref, cb |-> res.h] \in Range(fired)
    /\ \E h \in Hashes : hash_index[h].state = "Reserved"

\* C6: fetch_chunk hands out bytes only when their hash is the one asked for,
\* and answers None, not an error, when the blob is missing or the hash differs.
C6_SelfVerification ==
    /\ res.op = "fetch_chunk" /\ res.tag = "Some" => HashNew(res.data) = res.h
    /\ res.op = "fetch_chunk" /\ res.ref # NoRef => res.tag \in {"Some", "None"}
    /\ \A h \in Hashes, r \in RefArgs :
         LET got == retrieve(r)
             out == verify(h, got) IN
         /\ out.tag = "Some" => got.some /\ out.data = got.data /\ HashNew(out.data) = h
         /\ (~got.some \/ HashNew(got.data) # h) => out.tag = "None" /\ out.data = <<>>

\* C6 witness: after a byte was altered, fetch_chunk answered None for the ref
\* of the chunk asked for, whose blob is there.
C6_Witness ==
    /\ ncorrupt > 0
    /\ res.op = "fetch_chunk" /\ res.tag = "None"
    /\ res.ref \in StoredRefs(res.h)
    /\ res.ref.blob \in DOMAIN blobs

\* C7 (as claimed): no call returns the hash index's Retry to its caller.
C7_RetryAbsorbed == res.tag # "RetryErr"
\* C8: callbacks are invoked in the order of the store calls: within a blob
\* by offset, and all of a blob's before any of the next blob's.
C8_CallbackOrder ==
    /\ Len(fired) <= Len(written) /\ Len(written) <= Len(storeSeq)
    /\ \A i \in DOMAIN fired : fired[i] = storeSeq[i] /\ fired[i] = written[i]
    /\ \A i, j \in DOMAIN fired :
         i < j =>
            \/ fired[i].ref.blob < fired[j].ref.blob
            \/ /\ fired[i].ref.blob = fired[j].ref.blob
               /\ fired[i].ref.offset < fired[j].ref.offset
    /\ \A i \in DOMAIN firing, j \in DOMAIN fired :
         fired[j].ref.blob <= firing[i].ref.blob

\* C8 witness: two callbacks of one blob have run, and a later blob is open
\* with a chunk of its own.
C8_Witness ==
    /\ Len(fired) = 2
    /\ fired[1].ref.blob = fired[2].ref.blob
    /\ fired[1].ref.offset < fired[2].ref.offset

\* C9: every callback is invoked once, after the put of its blob, and an
\* entry is Committed from its callback on: never absent or Reserved again.
C9_CallbackOnce ==
    /\ \A h \in Hashes : FiredCount(h) <= 1
    /\ \A i \in DOMAIN fired : fired[i] \in Range(written)
    /\ Range(written) = Range(fired) \cup Range(firing)
    /\ Range(fired) \cap Range(firing) = {}
    /\ firing # <<>> => lock # "none"
    /\ \A h \in Hashes :
         /\ hash_index[h].state = "Committed" <=> FiredCount(h) = 1
         /\ hash_index[h].state # "Fatal"
         /\ reserved[h] >= 1 => hash_index[h].state \in {"Reserved", "Committed"}

\* C9 witness: store flushed the blob of its own chunk, and update_reserved
\* then found the entry Committed and left it so.
C9_Witness ==
    /\ res.op = "insert_chunk" /\ res.tag = "Stored"
    /\ hash_index[res.h].state = "Committed"
    /\ FiredCount(res.h) = 1

ChunkOf(h) == CHOOSE c \in Chunks : HashNew(c) = h

\* An insert_chunk call is under way in some thread.
Inserting == \E t \in Threads : pc[t] \in {"known", "store", "store_put", "store_cb", "update"}

\* C16: when flush has returned Ok and no insert_chunk is under way, the blob
\* store holds no pending callback and no hash entry is Reserved.
C16_FlushDrains ==
    (res.op = "flush" /\ res.tag = "Ok" /\ ~Inserting) =>
        /\ pending = <<>> /\ firing = <<>> /\ buffer = <<>>
        /\ \A h \in Hashes : hash_index[h].state \in {"Absent", "Committed"}
        /\ fired = storeSeq

\* C16 witness: flush returned Ok after sealing the newest blob, whose chunk a
\* completed insert_chunk had stored.
C16_Witness ==
    /\ res.op = "flush" /\ res.tag = "Ok" /\ ~Inserting
    /\ fired # <<>>
    /\ fired[Len(fired)].ref.blob = blob_name - 1
    /\ fired[Len(fired)].ref \in returned[fired[Len(fired)].cb]

C18_RetrieveRoundTrip ==
    /\ [](/\ ncorrupt = 0 =>
               \A i \in DOMAIN storeSeq :
                   retrieve(storeSeq[i].ref) =
                       [some |-> TRUE, data |-> ChunkOf(storeSeq[i].cb)]
          /\ ~retrieve(MissingRef).some)
    /\ [][(res' # res /\ res'.op = "fetch_chunk" /\ res'.ref # NoRef /\ ncorrupt = 0) =>
            IF res'.ref \in StoredRefs(res'.h)
            THEN res'.tag = "Some" /\ res'.data = ChunkOf(res'.h)
            ELSE res'.tag = "None"]_vars

\* C18 witness: fetch_chunk got the bytes of a chunk that lies in the open
\* blob, not yet flushed.
C18_Witness ==
    /\ res.op = "fetch_chunk" /\ res.tag = "Some"
    /\ res.ref.blob = blob_name
    /\ res.ref \in StoredRefs(res.h)

\* C19: one row per hash is ever inserted; a Committed entry never changes; a
\* commit with the ref already committed changes nothing, and no commit with
\* another ref is ever made.
C19_CommittedStable ==
    /\ [](\A h \in Hashes :
            /\ reserved[h] <= 1
            /\ hash_index[h].state # "Fatal"
            /\ hash_index[h].state = "Committed" =>
                 /\ index_commit(hash_index, h, hash_index[h].ref) = hash_index
                 /\ \A i \in DOMAIN fired :
                       fired[i].cb = h => fired[i].ref = hash_index[h].ref
                 /\ \A i \in DOMAIN pending :
                       pending[i].cb # h)
    /\ [][\A h \in Hashes :
            hash_index[h].state = "Committed" => hash_index'[h] = hash_index[h]]_vars

\* C19 witness: every hash is Committed and a later insert_chunk of one of
\* them was answered from the index.
C19_Witness ==
    /\ \A h \in Hashes : hash_index[h].state = "Committed"
    /\ res.op = "insert_chunk" /\ res.tag = "Known"
    /\ Quiescent

\* The children of an interior node of the hash tree: the node inserted at
\* level 1 lists the leaves.
Children(h) ==
    IF \E i \in Inputs : i.level > 0 /\ HashNew(i.chunk) = h
    THEN {HashNew(i.chunk) : i \in {j \in Inputs : j.level = 0}}
    ELSE {}

\* The chunk of hash c was stored before the chunk of hash p.
StoredBefore(c, p) ==
    \E i, j \in DOMAIN storeSeq :
        i < j /\ storeSeq[i].cb = c /\ storeSeq[j].cb = p

\* C20: an insert_chunk that has returned has its chunk stored, so a parent
\* inserted after its child has returned is stored after it; and of a child
\* stored before its parent, the entry is Committed whenever the parent's is.
C20_TreeClosure ==
    /\ \A h \in Hashes : returned[h] # {} => StoreCount(h) >= 1
    /\ \A p \in Hashes : \A c \in Children(p) :
         StoredBefore(c, p) =>
            /\ hash_index[p].state = "Committed" => hash_index[c].state = "Committed"
            /\ hash_index[c].ref.blob <= hash_index[p].ref.blob \/ hash_index[p].ref = NoRef

\* C20 witness: the child lies in an earlier blob than its parent, a later
\* insert_chunk of the child was deduplicated, and both are Committed.
C20_Witness ==
    \E p \in Hashes : \E c \in Children(p) :
        /\ StoredBefore(c, p)
        /\ hash_index[p].state = "Committed" /\ hash_index[c].state = "Committed"
        /\ hash_index[c].ref.blob < hash_index[p].ref.blob
        /\ res.op = "insert_chunk" /\ res.tag = "Known" /\ res.h = c

\* recurse has returned: the master has left its loop and the pool has no
\* closure left to run.
WalkDone == mpc = "done" /\ jobs = <<>> /\ running = {}

\* The path lies below the root, under directories for which handle_path
\* returned a payload.
RECURSIVE Reach(_)
Reach(path) ==
    /\ path # Root
    /\ \/ Parent(path) = Root
       \/ Parent(path) \in descended /\ Reach(Parent(path))

\* The path can be read: neither its entry nor the read_dir of a directory
\* above it failed.
RECURSIVE Readable(_)
Readable(path) ==
    \/ path = Root /\ Root \notin failed
    \/ /\ path # Root
       /\ path \notin skipped
       /\ Parent(path) \notin failed
       /\ Readable(Parent(path))

\* C11: no path is handled twice and the root is never handled, in any
\* interleaving; when recurse has returned from a tree without failures,
\* handle_path has been invoked exactly once for every path below the root
\* under directories it returned a payload for, and for no other.
C11_VisitOnce ==
    /\ handled[Root] = <<>>
    /\ \A path \in Paths : Len(handled[path]) <= 1
    /\ (WalkDone /\ nerr = 0) =>
          \A path \in Paths \ {Root} :
              Len(handled[path]) = IF Reach(path) THEN 1 ELSE 0

\* C11 witness: recurse has returned, nothing failed, and a path two levels
\* below the root was handled while the entries of a directory beside it,
\* for which handle_path returned None, were not.
C11_Witness ==
    /\ WalkDone /\ nerr = 0
    /\ Len(handled["/a/x"]) = 1
    /\ Len(handled["/b"]) = 1 /\ Len(handled["/b/y"]) = 0
    /\ descended = {"/a", "/c", "/d"}

\* A pool thread waits in send because the channel is full.
BlockedOnSend ==
    /\ Len(chan) = threads
    /\ \E task \in running : task.sending # "" \/ task.todo = <<>>

\* C12: under fair scheduling recurse returns; until then the master or some
\* pool thread can take a step, also while pool threads wait on a full channel.
C12_Terminates ==
    /\ <>WalkDone
    /\ [](~WalkDone => ENABLED WalkNext)
    /\ [](BlockedOnSend => ENABLED WalkMaster)

\* C12 witness: every pool thread waits in send on the full channel while more
\* closures are queued.
C12_Witness ==
    /\ Len(chan) = threads
    /\ Cardinality(running) = threads
    /\ \A task \in running : task.sending # "" \/ task.todo = <<>>
    /\ mpc = "loop"

\* The Work::More and Work::Done messages in the channel.
MoreInChan == {i \in DOMAIN chan : chan[i].tag = "More"}
DoneInChan == {i \in DOMAIN chan : chan[i].tag = "Done"}

\* C13: the counter is the number of closures handed to the pool whose Done
\* has not been received, so it is at least 1 when a Done is received and
\* never negative; the master leaves its loop only when the channel is empty,
\* no closure is running or queued and no More message is still to be sent.
C13_Counter ==
    /\ active_workers >= 0
    /\ mpc = "loop" =>
          active_workers = Len(jobs) + Cardinality(running) + Cardinality(DoneInChan)
    /\ (mpc = "loop" /\ chan # <<>> /\ Head(chan).tag = "Done") => active_workers >= 1
    /\ mpc = "done" =>
          /\ active_workers = 0
          /\ chan = <<>> /\ jobs = <<>> /\ running = {}
          /\ ~ENABLED WalkNext

\* C13 witness: the master has left its loop after closures for the root and
\* for sub-directories on two levels.
C13_Witness ==
    /\ mpc = "done"
    /\ ndone["/"] = 1 /\ ndone["/a"] = 1 /\ ndone["/a/x"] = 1 /\ ndone["/d"] = 1

\* C14: a closure sends one Done, also when its read_dir failed or one of its
\* entries could not be read; with such failures recurse still returns, and
\* has then handled every readable path it was to walk exactly once.
C14_ErrorsSkipped ==
    /\ [](\A path \in Paths : ndone[path] <= 1)
    /\ [](WalkDone =>
            /\ \A path \in Paths :
                  ndone[path] = IF path = Root \/ path \in descended THEN 1 ELSE 0
            /\ \A path \in Paths \ {Root} :
                  Len(handled[path]) = IF Reach(path) /\ Readable(path) THEN 1 ELSE 0)
    /\ (nerr > 0) ~> WalkDone

\* C14 witness: recurse has returned although the read_dir of a directory
\* failed, and the directories beside it were walked.
C14_Witness ==
    /\ WalkDone
    /\ failed = {"/b"}
    /\ ndone["/b"] = 1
    /\ Len(handled["/a/x"]) = 1 /\ ndone["/a"] = 1

\* C15: update_data_hash changes no row but row id, and of that row only hash
\* and persistent_ref; given last_modified = Some(t) it changes the row only
\* if the stored modified is null or <= t; given None it always sets the two
\* columns of row id.
C15_ConditionalUpdate ==
    [][klast'.op = "update_data_hash" =>
         LET id == klast'.id
             lm == klast'.last_modified
             set(row) == [row EXCEPT !.hash = hash_bytes(klast'.hash),
                                     !.persistent_ref = persistent_ref_bytes(klast'.ref)] IN
         /\ DOMAIN keys' = DOMAIN keys
         /\ \A j \in DOMAIN keys : j # id => keys'[j] = keys[j]
         /\ id \in DOMAIN keys =>
              /\ keys'[id] \in {keys[id], set(keys[id])}
              /\ (lm.some /\ keys'[id] # keys[id]) =>
                    (~keys[id].modified.some \/ keys[id].modified.v <= lm.v)
              /\ (lm.some /\ keys[id].modified.some /\ keys[id].modified.v > lm.v) =>
                    keys'[id] = keys[id]
              /\ ~lm.some => keys'[id] = set(keys[id])]_vars

\* C15 witness: of two rows, update_data_hash with last_modified = Some(1) has
\* set the hash of the row modified at 1 and a later one has left the row
\* modified at 2 as it was.
C15_Witness ==
    /\ Len(keys) = 2
    /\ keys[1].modified = Some(1) /\ keys[1].hash.some
    /\ keys[2].modified = Some(2) /\ ~keys[2].hash.some
    /\ klast.op = "update_data_hash" /\ klast.id = 2
    /\ klast.last_modified = Some(1) /\ klast.hash.some

\* C21: the ref a callback is invoked with is the ref store returned for its
\* chunk, field by field, so the ref committed for a hash is the one
\* insert_chunk holds and returns; this includes the chunk whose store call
\* fills the blob and flushes it.
C21_CallbackRef ==
    /\ \A rec \in Range(firing) \cup Range(fired) : rec.ref \in StoredRefs(rec.cb)
    /\ \A h \in Hashes :
         /\ returned[h] \subseteq StoredRefs(h)
         /\ hash_index[h].state = "Committed" => hash_index[h].ref \in StoredRefs(h)
    /\ \A t \in Threads :
         pc[t] \in {"store_put", "store_cb", "update"} =>
            /\ loc[t].ref \in StoredRefs(loc[t].h)
            /\ hash_index[loc[t].h].state = "Committed" =>
                  hash_index[loc[t].h].ref = loc[t].ref

\* C21 witness: a store call has filled the blob and flushed it, and the
\* callback of its own chunk has committed the ref the call is about to return.
C21_Witness ==
    \E t \in Threads :
        /\ pc[t] = "store_cb" /\ firing = <<>>
        /\ hash_index[loc[t].h].state = "Committed"
        /\ hash_index[loc[t].h].ref = loc[t].ref
        /\ loc[t].ref.offset > 0

\* The payload handle_path is to receive for a path: the one returned for the
\* directory the path is an entry of, the initial one for entries of the root.
ExpectedPayload(path) ==
    IF Parent(path) = Root THEN RootPayload ELSE PayloadOf(Parent(path))

\* A directory and the payload it is to be listed with: the root with the
\* initial payload, or a path handle_path returned a payload for, with it.
Listable(root, payload) ==
    \/ root = Root /\ payload = RootPayload
    \/ root # Root /\ root \in descended /\ payload = PayloadOf(root)

\* C22: handle_path receives, for an entry of directory D, the payload it
\* returned for D (the initial one under the root); every More message and
\* every closure is for the root or for a path handle_path returned Some for,
\* so a path it returned None for is never listed.
C22_PayloadPropagation ==
    /\ \A path \in Paths : \A i \in DOMAIN handled[path] :
          handled[path][i] = ExpectedPayload(path)
    /\ \A i \in DOMAIN chan :
          chan[i].tag = "More" => Listable(chan[i].root, chan[i].payload)
    /\ \A i \in DOMAIN jobs : Listable(jobs[i].root, jobs[i].payload)
    /\ \A task \in running :
          /\ Listable(task.root, task.payload)
          /\ task.sending # "" => task.sending \in descended
    /\ \A path \in Paths \ {Root} : path \notin descended => ndone[path] = 0

\* C22 witness: recurse has returned; an entry two levels down was handled
\* with its directory's payload, and a directory handle_path returned None
\* for was handled with the initial payload and never listed.
C22_Witness ==
    /\ WalkDone
    /\ handled["/a/x"] = <<PayloadOf("/a")>>
    /\ handled["/b"] = <<RootPayload>>
    /\ "/b" \notin descended /\ ndone["/b"] = 0 /\ handled["/b/y"] = <<>>

\* C23 (as claimed): on the ReserveOk path, update_reserved is applied while
\* the entry of the hash is still Reserved, before its commit callback runs.
C23_UpdateWhileReserved ==
    [][\A t \in Threads :
         (pc[t] = "update" /\ pc'[t] = "idle") =>
            hash_index[loc[t].h].state = "Reserved"]_vars

\* C24: insert_chunk never panics on its HashKnown arm: while a call is in the
\* fetch_persistent_ref loop the entry of its hash is Reserved or Committed,
\* so the loop is answered Retry or Some and never None.
C24_NoPanic ==
    /\ res.tag # "Panic"
    /\ \A t \in Threads :
         pc[t] = "known" =>
            /\ hash_index[loc[t].h].state \in {"Reserved", "Committed"}
            /\ index_fetch_persistent_ref(hash_index, loc[t].h).tag \in {"Retry", "Some"}

\* C24 witness: a call is in the loop on a Reserved entry, answered Retry,
\* while the other thread is inside a flush that is about to commit that entry.
C24_Witness ==
    \E t, u \in Threads :
        /\ pc[t] = "known"
        /\ index_fetch_persistent_ref(hash_index, loc[t].h).tag = "Retry"
        /\ pc[u] \in {"store_cb", "flush_cb"}
        /\ \E i \in DOMAIN firing : firing[i].cb = loc[t].h

\* C25: in every state of the key index a row's hash is null exactly when
\* its persistent_ref is null: a new row has both null, insert with an
\* existing id changes neither column, update_data_hash sets both from
\* arguments that are both present or both absent, and a call whose
\* arguments differ in that stops at the assertion and changes nothing.
C25_HashIffRef ==
    /\ [](\A j \in DOMAIN keys : keys[j].hash.some = keys[j].persistent_ref.some)
    /\ [][klast'.op = "insert" =>
            /\ \A j \in DOMAIN keys :
                  /\ keys'[j].hash = keys[j].hash
                  /\ keys'[j].persistent_ref = keys[j].persistent_ref
            /\ \A j \in DOMAIN keys' \ DOMAIN keys :
                  ~keys'[j].hash.some /\ ~keys'[j].persistent_ref.some]_vars
    /\ [][klast'.op = "update_data_hash" => klast'.hash.some = klast'.ref.some]_vars
    /\ [][klast'.op = "panic" => keys' = keys]_vars

\* C25 witness: one row has a hash and a persistent_ref, the other has
\* neither, and the last call, for the row that has them, stopped at the
\* assertion.
C25_Witness ==
    /\ Len(keys) = 2
    /\ keys[1].hash.some /\ keys[1].persistent_ref.some
    /\ ~keys[2].hash.some /\ ~keys[2].persistent_ref.some
    /\ klast.op = "panic" /\ klast.id = 1

====
